---- MODULE Spec2Model ----
(***************************************************************************)
(* A model of the remote file-operation service: the client shim           *)
(* (src/src/mylib.c), the per-session server handler (src/src/server.c),   *)
(* and the two byte streams of the TCP connection between them.            *)
(*                                                                         *)
(* Byte payloads are symbolic: a payload is a sequence of segments         *)
(* <<source, offset, length>>, so every byte keeps its identity            *)
(* (source, index) and chunked transfers of thousands of bytes stay small. *)
(***************************************************************************)
EXTENDS Integers, Sequences, FiniteSets, TLC

\* ------------------------------------------------------------ constants
MAX_MSG_LEN == 4096
FD_OFFSET == 5000

OP_OPEN == 0
OP_READ == 1
OP_WRITE == 2
OP_CLOSE == 3
OP_LSEEK == 4
OP_STAT == 5
OP_UNLINK == 6
OP_GETDIRENTRIES == 7
OP_GETDIRTREE == 8

\* ---------------------------------------------------------------- bounds
\* calls the host process issues in one session
MaxCalls == 3
\* misaligned reply decodes followed in one session
MaxGarbage == 1
\* bytes of directory entries the server's directory holds
DirBytes == 48
\* bytes the server emits when send is handed the length (size_t)-1
JunkLen == 16
\* bytes the server's regular file holds when the session starts
OldLen == 3
\* writes the server's kernel does not complete in one session
MaxShort == 1
\* children of an inner node of the directory trees of SpecDirtree
DtMaxKids == 2
\* connections made to the server of SpecSessions
MaxSessions == 2
\* requests the handlers of SpecSessions handle in all
MaxTurns == 3

\* ------------------------------------------------------- symbolic bytes
\* n bytes of source src starting at index off
Bytes(src, off, n) == IF n <= 0 THEN <<>> ELSE << <<src, off, n>> >>

RECURSIVE DataLen(_)
DataLen(d) == IF d = <<>> THEN 0 ELSE d[1][3] + DataLen(Tail(d))

\* the first n bytes of d
RECURSIVE Take(_, _)
Take(d, n) ==
    IF n <= 0 \/ d = <<>> THEN <<>>
    ELSE IF d[1][3] <= n THEN <<d[1]>> \o Take(Tail(d), n - d[1][3])
    ELSE << <<d[1][1], d[1][2], n>> >>

\* d without its first n bytes
RECURSIVE Drop(_, _)
Drop(d, n) ==
    IF n <= 0 \/ d = <<>> THEN d
    ELSE IF d[1][3] <= n THEN Drop(Tail(d), n - d[1][3])
    ELSE << <<d[1][1], d[1][2] + n, d[1][3] - n>> >> \o Tail(d)

\* adjacent segments of one source merged: equal byte strings, equal values
RECURSIVE Norm(_)
Norm(d) ==
    IF Len(d) < 2 THEN d
    ELSE IF d[1][1] = d[2][1] /\ d[1][2] + d[1][3] = d[2][2]
         THEN Norm(<< <<d[1][1], d[1][2], d[1][3] + d[2][3]>> >> \o Tail(Tail(d)))
         ELSE <<d[1]>> \o Norm(Tail(d))

\* memcpy(dst + at, src, n): n = DataLen(src) bytes of dst replaced from at on
Memcpy(dst, at, src) ==
    Norm(Take(dst, at) \o src \o Drop(dst, at + DataLen(src)))

Min(a, b) == IF a < b THEN a ELSE b

\* -------------------------------------------- directory tree (de)serializer
\* A node is [name |-> bytes, subdirs |-> sequence of nodes]; num_subdirs is
\* Len(subdirs).  A NULL pointer is the empty sequence, a pointer to node t
\* is <<t>>.  The byte at C offset o of buffer b is b[o + 1].

\* the four bytes memcpy(.., &n, sizeof(uint32_t)) copies from the int n
\* (two's complement, little-endian)
LE32(n) ==
    LET m == IF n < 0 THEN (n + 2147483647) + 1 ELSE n
        top == IF n < 0 THEN 128 ELSE 0
    IN  << m % 256, (m \div 256) % 256, (m \div 65536) % 256, (m \div 16777216) + top >>

ByteAt(buf, o) == IF o >= 0 /\ o < Len(buf) THEN buf[o + 1] ELSE 0

\* the int memcpy(&n, buf + o, sizeof(uint32_t)) stores
FromLE32(buf, o) ==
    LET b3 == ByteAt(buf, o + 3)
        m == ByteAt(buf, o) + 256 * ByteAt(buf, o + 1) + 65536 * ByteAt(buf, o + 2)
             + 16777216 * (b3 % 128)
    IN  IF b3 >= 128 THEN (m - 2147483647) - 1 ELSE m

\* strlen(buf + o): the bytes before the first NUL at or after offset o
RECURSIVE Strlen(_, _)
Strlen(buf, o) ==
    IF o >= Len(buf) \/ buf[o + 1] = 0 THEN 0 ELSE 1 + Strlen(buf, o + 1)

\* server.c serialize_dirtree: the bytes one call appends at *offset
RECURSIVE serialize_dirtree(_)
RECURSIVE SerializeKids(_)
SerializeKids(kids) ==
    IF kids = <<>> THEN <<>>
    ELSE serialize_dirtree(<<kids[1]>>) \o SerializeKids(Tail(kids))

serialize_dirtree(ptr) ==
    IF ptr = <<>> THEN <<>>
    ELSE LET node == ptr[1]
             cname == node.name \o <<0>>
             name_len == Strlen(cname, 0)
         IN  SubSeq(cname, 1, name_len) \o <<0>>
             \o LE32(Len(node.subdirs))
             \o SerializeKids(node.subdirs)

\* mylib.c:554 without the delimiter: *offset += name_len
AfterNameNoNul(off, name_len) == off + name_len

\* mylib.c:554  *offset += name_len + 1
AfterName(off, name_len) == off + name_len + 1

\* mylib.c deserialize_dirtree on buf from *offset: the node built, the
\* offset reached, and ok: every byte read lies inside buf
RECURSIVE deserialize_dirtree(_, _)
RECURSIVE DeserializeKids(_, _, _)
DeserializeKids(buf, off, n) ==
    IF n <= 0 THEN [ts |-> <<>>, off |-> off, ok |-> TRUE]
    ELSE LET d == deserialize_dirtree(buf, off)
             rest == DeserializeKids(buf, d.off, n - 1)
         IN  [ts |-> <<d.t>> \o rest.ts, off |-> rest.off, ok |-> d.ok /\ rest.ok]

deserialize_dirtree(buf, off) ==
    LET name_len == Strlen(buf, off)
        name == SubSeq(buf, off + 1, off + name_len)
        o1 == AfterName(off, name_len)
        inside == o1 + 4 <= Len(buf)
        num_subdirs == IF inside THEN Min(FromLE32(buf, o1), Len(buf)) ELSE 0
        kids == DeserializeKids(buf, o1 + 4, num_subdirs)
    IN  [t |-> [name |-> name, subdirs |-> kids.ts],
         off |-> kids.off,
         ok |-> inside /\ num_subdirs = FromLE32(buf, o1) /\ kids.ok]

\* ------------------------------------------------ the server's kernel
\* The file operations the handlers call (server.c:68, 116, 164, 204, 248,
\* 282, 323, 365, 438) on the handler's state S = [fds, fc, nm, e]:
\*   fds  the handler's descriptor table, fc the regular file's bytes,
\*   nm   the path names that exist, e the handler's errno.
\* A failing call stores its error in errno; a successful call leaves errno
\* as it is.

Errno(name) ==
    CASE name = "ENOENT" -> 2
      [] name = "EBADF" -> 9
      [] name = "ENOTDIR" -> 20
      [] name = "EISDIR" -> 21
      [] name = "EINVAL" -> 22
      [] name = "EMFILE" -> 24
      [] name = "ENOSPC" -> 28

\* descriptors a handler can allocate: 0..2 are stdio, 4 is the session socket
SrvFds == {3, 5}
Paths == {"f", "d", "x"}
\* "f" is a regular file, "d" a directory, "x" does not exist
Ino(path) == CASE path = "f" -> 1 [] path = "d" -> 2 [] OTHER -> 0

NoFd == [ino |-> 0, off |-> 0, acc |-> 0]
Flag(name) == CASE name = "O_RDONLY" -> 0 [] name = "O_RDWR" -> 2
Whence(name) == CASE name = "SEEK_SET" -> 0 [] name = "SEEK_END" -> 2

IsOpen(S, fd) == fd \in SrvFds /\ S.fds[fd].ino # 0
FreeFds(S) == {fd \in SrvFds : S.fds[fd].ino = 0}
LowestFree(S) == CHOOSE fd \in FreeFds(S) : \A g \in FreeFds(S) : fd <= g

KFail(S, name) == [r |-> -1, s |-> [S EXCEPT !.e = Errno(name)], data |-> <<>>]
KOk(S, r, data) == [r |-> r, s |-> S, data |-> data]

KOpen(S, path, flags) ==
    IF path \notin S.nm THEN KFail(S, "ENOENT")
    ELSE IF Ino(path) = 2 /\ flags # Flag("O_RDONLY") THEN KFail(S, "EISDIR")
    ELSE IF FreeFds(S) = {} THEN KFail(S, "EMFILE")
    ELSE LET fd == LowestFree(S)
         IN  KOk([S EXCEPT !.fds[fd] = [ino |-> Ino(path), off |-> 0, acc |-> flags]],
                 fd, <<>>)

KRead(S, fd, count) ==
    IF ~IsOpen(S, fd) THEN KFail(S, "EBADF")
    ELSE IF S.fds[fd].ino = 2 THEN KFail(S, "EISDIR")
    ELSE LET off == S.fds[fd].off
             n == Min(count, DataLen(S.fc) - off)
         IN  KOk([S EXCEPT !.fds[fd].off = off + n], n, Take(Drop(S.fc, off), n))

\* how: "short", the kernel writes one byte less than asked; "fail", the
\* device has no room left and the kernel writes nothing
KWrite(S, fd, data, how) ==
    IF ~IsOpen(S, fd) THEN KFail(S, "EBADF")
    ELSE IF S.fds[fd].acc = Flag("O_RDONLY") THEN KFail(S, "EBADF")
    ELSE IF how = "fail" THEN KFail(S, "ENOSPC")
    ELSE LET off == S.fds[fd].off
             n == IF how = "short" THEN DataLen(data) - 1 ELSE DataLen(data)
         IN  KOk([S EXCEPT !.fds[fd].off = off + n,
                           !.fc = Memcpy(S.fc, off, Take(data, n))],
                 n, <<>>)

KClose(S, fd) ==
    IF ~IsOpen(S, fd) THEN KFail(S, "EBADF")
    ELSE KOk([S EXCEPT !.fds[fd] = NoFd], 0, <<>>)

KLseek(S, fd, offset, whence) ==
    IF ~IsOpen(S, fd) THEN KFail(S, "EBADF")
    ELSE LET size == IF S.fds[fd].ino = 2 THEN DirBytes ELSE DataLen(S.fc)
             new == IF whence = Whence("SEEK_SET") THEN offset ELSE size + offset
         IN  IF new < 0 THEN KFail(S, "EINVAL")
             ELSE KOk([S EXCEPT !.fds[fd].off = new], new, <<>>)

\* data: the status the call stores in the statbuf it is handed
KStat(S, path) ==
    IF path \notin S.nm THEN KFail(S, "ENOENT")
    ELSE KOk(S, 0, Bytes(path, 0, 144))

KUnlink(S, path) ==
    IF path \notin S.nm THEN KFail(S, "ENOENT")
    ELSE IF Ino(path) = 2 THEN KFail(S, "EISDIR")
    ELSE KOk([S EXCEPT !.nm = @ \ {path}], 0, <<>>)

KGetdirentries(S, fd, nbyte) ==
    IF ~IsOpen(S, fd) THEN KFail(S, "EBADF")
    ELSE IF S.fds[fd].ino # 2 THEN KFail(S, "ENOTDIR")
    ELSE IF nbyte < DirBytes THEN KFail(S, "EINVAL")
    ELSE IF S.fds[fd].off # 0 THEN KOk(S, 0, <<>>)
    ELSE KOk([S EXCEPT !.fds[fd].off = DirBytes], DirBytes, Bytes("dirent", 0, DirBytes))

\* the tree the server's directory "d" holds: d/b
SrvTree == [name |-> <<100>>, subdirs |-> << [name |-> <<98>>, subdirs |-> <<>>] >>]

\* tree: the pointer getdirtree returns
KGetdirtree(S, path) ==
    IF path \notin S.nm THEN [tree |-> <<>>, s |-> [S EXCEPT !.e = Errno("ENOENT")]]
    ELSE IF Ino(path) # 2 THEN [tree |-> <<>>, s |-> [S EXCEPT !.e = Errno("ENOTDIR")]]
    ELSE [tree |-> <<SrvTree>>, s |-> S]

\* ------------------------------------------------------------ the wire
\* A request is what one sendRequest call emits: its fields, its byte
\* length len, and cfd, the descriptor the caller passed (not on the wire).
Req(op, fd, cnt, path, flags, off, wh, data, len, cfd) ==
    [op |-> op, fd |-> fd, cnt |-> cnt, path |-> path, flags |-> flags,
     off |-> off, wh |-> wh, data |-> data, len |-> len, cfd |-> cfd]

\* A frame is what one send call of the server emits: len bytes holding the
\* fields a (first integer), b (errno), data (payload bytes) and tb (tree
\* bytes).  whole: no byte of it has been consumed and its fields are the
\* ones the server encoded.
Frame(len, a, b, data, tb) ==
    [len |-> len, whole |-> TRUE, a |-> a, b |-> b, data |-> data, tb |-> tb]

\* what send(sessfd, retBuf, (size_t)-1, 0) emits when it does not fail:
\* the handler's stack from retBuf upwards
JunkFrame == [len |-> JunkLen, whole |-> FALSE, a |-> 0, b |-> 0,
              data |-> <<>>, tb |-> <<>>]

RECURSIVE StreamLen(_)
StreamLen(st) == IF st = <<>> THEN 0 ELSE st[1].len + StreamLen(Tail(st))

\* the stream after n of its bytes were received
RECURSIVE Consume(_, _)
Consume(st, n) ==
    IF n <= 0 \/ st = <<>> THEN st
    ELSE IF st[1].len <= n THEN Consume(Tail(st), n - st[1].len)
    ELSE << [JunkFrame EXCEPT !.len = st[1].len - n] >> \o Tail(st)

\* ------------------------------------------------------ server handlers
\* Each handler maps the request q and the handler state S to the new state
\* s, the frames out it and the main loop send for this request, and kr, the
\* value the file operation returned.

Reply(K, len) == [s |-> K.s, out |-> <<Frame(len, K.r, K.s.e, <<>>, <<>>)>>, kr |-> K.r]

\* server.c:61-62, 279-281, 321-322: pathname = malloc(path_len + 1) receives
\* the path_len bytes of the request and no terminator, so the string the
\* file operation reads ends where the memory malloc returned first holds a
\* zero byte: at pathname[path_len] (term) or behind further bytes of the heap.
Pathname(q, term) ==
    IF term \/ q.op \notin {OP_OPEN, OP_STAT, OP_UNLINK} THEN q.path
    ELSE q.path \o "+heap"

handle_open(q, S, term) == Reply(KOpen(S, Pathname(q, term), q.flags), 8)

handle_read(q, S) ==
    LET K == KRead(S, q.fd, q.cnt)
        \* data = malloc(count): the bytes read, then uninitialized heap
        data == K.data \o Bytes("heap", DataLen(K.data), q.cnt - DataLen(K.data))
    IN  [s |-> K.s, out |-> <<Frame(8 + q.cnt, K.r, K.s.e, data, <<>>)>>, kr |-> K.r]

handle_write(q, S, how) == Reply(KWrite(S, q.fd, q.data, how), 8)

handle_close(q, S) == Reply(KClose(S, q.fd), 8)

handle_lseek(q, S) == Reply(KLseek(S, q.fd, q.off, q.wh), 12)

\* the status is stored in the handler's own statbuf and is not replied
handle_stat(q, S, term) == Reply(KStat(S, Pathname(q, term)), 8)

handle_unlink(q, S, term) == Reply(KUnlink(S, Pathname(q, term)), 8)

\* the header frame is sent by the handler, retLen = (size_t)bytes_read bytes
\* of retBuf by the main loop; junk: the send of (size_t)-1 bytes emits bytes
handle_getdirentries(q, S, junk) ==
    LET K == KGetdirentries(S, q.fd, q.cnt)
        hdr == Frame(8, K.r, K.s.e, <<>>, <<>>)
        body == IF K.r = -1 THEN (IF junk THEN <<JunkFrame>> ELSE <<>>)
                ELSE IF K.r = 0 THEN <<>>
                ELSE <<Frame(K.r, 0, 0, K.data, <<>>)>>
    IN  [s |-> K.s, out |-> <<hdr>> \o body, kr |-> K.r]

\* sent: the send of the length header did not return -1; when it did the
\* handler returns before freedirtree(root) (server.c:449-452)
handle_getdirtree(q, S, sent) ==
    LET K == KGetdirtree(S, q.path)
        bytes == serialize_dirtree(K.tree)
        hdr == Frame(4, Len(bytes), 0, <<>>, <<>>)
        body == IF bytes = <<>> THEN <<>> ELSE <<Frame(Len(bytes), 0, 0, <<>>, bytes)>>
    IN  [s |-> IF sent THEN K.s ELSE [K.s EXCEPT !.trees = @ + Len(K.tree)],
         out |-> <<hdr>> \o body, kr |-> Len(K.tree)]

\* retLen, the value the handler of q returned to the main loop, res being
\* what the handler did: the length of the one reply frame, or, for the two
\* handlers that send a header themselves, the length of what follows it:
\* (size_t)bytes_read for getdirentries, -1 standing for (size_t)-1.
RetLen(q, res) ==
    IF q.op = OP_GETDIRENTRIES THEN res.kr
    ELSE IF q.op = OP_GETDIRTREE THEN StreamLen(res.out) - 4
    ELSE StreamLen(res.out)

\* server.c:551-552 with an unknown opcode handled as a close
handle_default_close(q, S) == handle_close(q, S)

\* server.c:551-552  default: retLen = 0
handle_default(q, S) == [s |-> S, out |-> <<>>, kr |-> 0]

\* server.c main, the switch on the opcode
Dispatch(q, S, nd) ==
    CASE q.op = OP_OPEN -> handle_open(q, S, nd # "unterm")
      [] q.op = OP_READ -> handle_read(q, S)
      [] q.op = OP_WRITE -> handle_write(q, S, nd)
      [] q.op = OP_CLOSE -> handle_close(q, S)
      [] q.op = OP_LSEEK -> handle_lseek(q, S)
      [] q.op = OP_STAT -> handle_stat(q, S, nd # "unterm")
      [] q.op = OP_UNLINK -> handle_unlink(q, S, nd # "unterm")
      [] q.op = OP_GETDIRENTRIES -> handle_getdirentries(q, S, nd = "junk")
      [] q.op = OP_GETDIRTREE -> handle_getdirtree(q, S, nd # "sendfail")
      [] OTHER -> handle_default(q, S)

\* ------------------------------------------------------------ the shim
\* mylib.c:204, 284, 316, 364, 493 with negative descriptors sent to the server
IsLocalNonNegative(fd) == fd >= 0 /\ fd < FD_OFFSET

\* mylib.c:204, 284, 316, 364, 493  if (fd < FD_OFFSET) return orig_...(...)
IsLocal(fd) == fd < FD_OFFSET

\* mylib.c:207, 287, 319, 367, 496 with the subtraction left out
WireFdBiased(fd) == fd

\* mylib.c:207, 287, 319, 367, 496  fd -= FD_OFFSET
WireFd(fd) == fd - FD_OFFSET

\* mylib.c:141  if (fd != -1) fd += FD_OFFSET
OpenRet(fd) == IF fd # -1 THEN fd + FD_OFFSET ELSE fd

\* mylib.c:192, 272 without the test of errno: return bytes
HelperRetBytes(bytes, err) == bytes

\* mylib.c:192, 272  return errno == 0 ? bytes : -1
HelperRet(bytes, err) == IF err = 0 THEN bytes ELSE -1

\* mylib.c:293 with the overhead of read: maxLen = MAX_MSG_LEN - 8
WriteChunkReadLimit(count) == Min(count, MAX_MSG_LEN - 8)

\* mylib.c:209, 212  and  mylib.c:293, 296
ReadChunk(count) == Min(count, MAX_MSG_LEN - 8)
WriteChunk(count) == Min(count, MAX_MSG_LEN - 12)

\* every path of the model is one byte long
PathLen(path) == 1

FdOps == {OP_READ, OP_WRITE, OP_CLOSE, OP_LSEEK, OP_GETDIRENTRIES}

\* a call of the host process
Call(op, fd, path, flags, cnt, off, wh) ==
    [op |-> op, fd |-> fd, path |-> path, flags |-> flags, cnt |-> cnt,
     off |-> off, wh |-> wh]
NoCall == Call(-1, 0, "", 0, 0, 0, 0)

\* the requests the entry points encode
OpenReq(c) == Req(OP_OPEN, 0, 0, c.path, c.flags, 0, 0, <<>>, 16 + PathLen(c.path), 0)
ReadReq(c, n) == Req(OP_READ, WireFd(c.fd), n, "", 0, 0, 0, <<>>, 12, c.fd)
WriteReq(c, at, n) ==
    Req(OP_WRITE, WireFd(c.fd), n, "", 0, 0, 0, Bytes("s", at, n), 12 + n, c.fd)
CloseReq(c) == Req(OP_CLOSE, WireFd(c.fd), 0, "", 0, 0, 0, <<>>, 8, c.fd)
LseekReq(c) == Req(OP_LSEEK, WireFd(c.fd), 0, "", 0, c.off, c.wh, <<>>, 20, c.fd)
StatReq(c, statbuf) == Req(OP_STAT, 0, 0, c.path, 0, 0, 0, statbuf, 8 + PathLen(c.path) + 144, 0)
UnlinkReq(c) == Req(OP_UNLINK, 0, 0, c.path, 0, 0, 0, <<>>, 8 + PathLen(c.path), 0)
GetdirentriesReq(c) == Req(OP_GETDIRENTRIES, WireFd(c.fd), c.cnt, "", 0, 0, 0, <<>>, 20, c.fd)
GetdirtreeReq(c) == Req(OP_GETDIRTREE, 0, 0, c.path, 0, 0, 0, <<>>, 8 + PathLen(c.path), 0)

\* ------------------------------------------------------------- inputs
\* descriptors the host passes: two below FD_OFFSET (a negative one and the
\* largest one), two that open returned for the server's descriptors
CallerFds == {-1, FD_OFFSET - 1, FD_OFFSET + 3, FD_OFFSET + 5}
Counts == {0, 5, 10000}
OpenFlags == {Flag("O_RDONLY"), Flag("O_RDWR")}
Seeks == {<<-1, Whence("SEEK_SET")>>, <<0, Whence("SEEK_SET")>>, <<0, Whence("SEEK_END")>>}
Nbytes == {DirBytes, 64}
\* values the local implementations return
LocalRets == {-1, 0}
\* a descriptor with the result of the local implementation, were it called
FdArgs == {a \in CallerFds \X LocalRets : a[1] >= FD_OFFSET => a[2] = 0}
\* the counts and seeks tried on a descriptor: one on those below FD_OFFSET
CountsFor(fd) == IF fd >= FD_OFFSET THEN Counts ELSE {5}
SeeksFor(fd) == IF fd >= FD_OFFSET THEN Seeks ELSE {<<0, Whence("SEEK_SET")>>}
\* the integers a misaligned decode yields: in the first field of a reply,
\* and in its errno field
GarbageInts == {-1, 0, 1}
GarbageErrnos == {0, 1}
\* the trees deserialize_dirtree can build when it reads outside its buffer
EmptyNode == [name |-> <<>>, subdirs |-> <<>>]
UBTrees == { <<EmptyNode>>, << [name |-> <<>>, subdirs |-> <<EmptyNode>>] >> }

\* --------------------------------------------------------------- state
VARIABLES
    cli,      \* the shim inside the host process: pc ("idle": no call in
              \* progress, "wait": a reply is awaited, "returned": the call
              \* cur has just returned ret to the host, "data": the payload
              \* frame of getdirentries or getdirtree is awaited, "hang": a
              \* receive that cannot end, "dead": the process was ended by
              \* err(1, 0)), cur (the call in progress, or the
              \* last one), tot and rem (the chunk loop's running total and
              \* remaining count), sub (requests sent by cur), ret (the
              \* value the last call returned), errno, buf (the caller's
              \* buffer), statbuf (the caller's status buffer), hdr (the
              \* length a header frame announced), basep (the caller's
              \* variable getdirentries is handed by reference)
    rtree,    \* the pointer the last getdirtree returned
    ncalls,   \* calls issued so far
    ngarb,    \* misaligned decodes so far
    c2s,      \* requests sent and not yet received by the handler
    s2c,      \* reply bytes sent and not yet received by the shim
    S,        \* the handler: fds, fc, nm, e (see the kernel section); up: it
              \* is in its recv loop; trees: directory trees it obtained from
              \* getdirtree and has not freed
    nshort,   \* writes, sends and receives the server's kernel did not
              \* complete so far
    srv,      \* what the handler did for the request it handled last: ret,
              \* the value its file operation returned, err, the errno it
              \* read, retLen, the length it returned to the main loop, path,
              \* the pathname it handed to its file operation
    orig,     \* the local implementations: n calls so far, the last one's
              \* op and result r
    wr,       \* the write call in progress or last completed: valid (the
              \* descriptor was open for writing when it started), rdwr, full
              \* (the kernel wrote every sub-frame handled so far in full),
              \* off0 and len0 (file offset and file size when it started)
    og,       \* the last open: a, the descriptor it decoded, ret, its result;
              \* closed: the descriptors close returned 0 for and no open has
              \* returned since
    rt,       \* progress of write; lseek(0, SEEK_SET); read on one descriptor
    mode,     \* "free": the host issues any calls; "script": it follows script
    script,   \* the calls the host still issues in mode "script"
    dtPhase, dtTree, dtBuf, dtOut,  \* the serializer round trip of SpecDirtree
    procs,    \* the server's processes (SpecSessions): pc, pid (what fork
              \* returned in the process), sessfd (the connection whose
              \* session socket it holds, 0: none), sockfd (it holds the
              \* listening socket)
    tables,   \* the descriptor table and errno of each process
    fsys,     \* the file system all processes share: fc, nm
    backlog,  \* connections: q, made and not yet accepted; seen, ever made
    turn      \* the request handled last: who (the process), op, fd, r (the
              \* value its file operation returned), len (the bytes sent in
              \* reply), n (requests handled)

cliVars == <<cli, rtree, ncalls, ngarb, orig, og, rt, mode, script>>
srvVars == <<S, nshort, srv>>
dtVars == <<dtPhase, dtTree, dtBuf, dtOut>>
sessVars == <<procs, tables, fsys, backlog, turn>>
vars == <<cli, rtree, ncalls, ngarb, c2s, s2c, S, nshort, srv, orig, wr, og, rt,
          mode, script, dtPhase, dtTree, dtBuf, dtOut, procs, tables, fsys,
          backlog, turn>>

RtNone == [st |-> 0, fd |-> 0, n |-> 0]
NoWrite == [valid |-> FALSE, rdwr |-> FALSE, full |-> TRUE, off0 |-> 0, len0 |-> 0]
NoOrig == [n |-> 0, op |-> -1, r |-> 0]
NoSrv == [ret |-> 0, err |-> 0, retLen |-> 0, path |-> ""]

InitShim ==
    /\ cli = [pc |-> "idle", cur |-> NoCall, tot |-> 0, rem |-> 0, sub |-> 0,
              ret |-> 0, errno |-> 0, buf |-> <<>>,
              statbuf |-> Bytes("caller", 0, 144), hdr |-> 0, basep |-> 0]
    /\ rtree = <<>>
    /\ ncalls = 0
    /\ ngarb = 0
    /\ c2s = <<>>
    /\ s2c = <<>>
    /\ orig = NoOrig
    /\ wr = NoWrite
    /\ og = [a |-> -1, ret |-> -1, closed |-> {}]
    /\ rt = RtNone

\* the server's processes: 0 is the one started from the command line, k > 0
\* the k-th process fork creates
Procs == 0 .. MaxSessions
Conns == 1 .. MaxSessions
NoProc == [pc |-> "unborn", pid |-> -1, sessfd |-> 0, sockfd |-> FALSE]
NoTable == [fds |-> [fd \in SrvFds |-> NoFd], e |-> 0]
NoTurn == [who |-> -1, op |-> -1, fd |-> 0, r |-> 0, len |-> 0, n |-> 0]
InitFsys == [fc |-> Bytes("old", 0, OldLen), nm |-> {"f", "d"}]

InitSessIdle ==
    /\ procs = [p \in Procs |-> NoProc]
    /\ tables = [p \in Procs |-> NoTable]
    /\ fsys = InitFsys
    /\ backlog = [q |-> {}, seen |-> {}]
    /\ turn = NoTurn

InitServer ==
    /\ S = [fds |-> [fd \in SrvFds |-> NoFd], fc |-> Bytes("old", 0, OldLen),
            nm |-> {"f", "d"}, e |-> 0, up |-> TRUE, trees |-> 0]
    /\ nshort = 0
    /\ srv = NoSrv
    /\ InitSessIdle

InitDtIdle ==
    /\ dtPhase = "off"
    /\ dtTree = EmptyNode
    /\ dtBuf = <<>>
    /\ dtOut = [t |-> EmptyNode, off |-> 0, ok |-> FALSE]

Init ==
    /\ InitShim
    /\ InitServer
    /\ InitDtIdle
    /\ mode = "free"
    /\ script = <<>>

\* ------------------------------------------------------ the host's calls
Allowed(c) ==
    IF mode = "free" THEN ncalls < MaxCalls
    ELSE script # <<>> /\ Head(script) = c

\* the host process enters the entry point of call c
Begin(c) ==
    /\ cli.pc = "idle"
    /\ Allowed(c)
    /\ ncalls' = ncalls + 1
    /\ script' = IF mode = "free" THEN script ELSE Tail(script)
    /\ UNCHANGED <<mode, srvVars, dtVars, sessVars, s2c, ngarb>>

\* rt after call c returned (followed on the scripted runs only); rdwr: a
\* write on a descriptor opened O_RDWR
RtStep(c, rdwr) ==
    IF mode = "free" THEN RtNone
    ELSE IF c.op = OP_WRITE
    THEN (IF rdwr THEN [st |-> 1, fd |-> c.fd, n |-> c.cnt] ELSE RtNone)
    ELSE IF c.op = OP_LSEEK /\ rt.st = 1 /\ c.fd = rt.fd /\ c.off = 0
            /\ c.wh = Whence("SEEK_SET")
    THEN [rt EXCEPT !.st = 2]
    ELSE IF c.op = OP_READ /\ rt.st = 2 /\ c.fd = rt.fd /\ c.cnt = rt.n
    THEN [rt EXCEPT !.st = 3]
    ELSE RtNone

\* the branch  if (fd < FD_OFFSET) return orig_...(...)  returning r
Local(c, r) ==
    /\ cli' = [cli EXCEPT !.pc = "returned", !.cur = c, !.ret = r, !.sub = 0]
    /\ orig' = [n |-> orig.n + 1, op |-> c.op, r |-> r]
    /\ rt' = RtNone
    /\ UNCHANGED <<c2s, wr, og, rtree>>

\* sendRequest(buf, totalSize) (mylib.c:67-74):
\*     while (sentSize < totalSize) sentSize += send(sockfd, ...);
\* The value of send is added to the unsigned sentSize untested.  When send
\* returns -1 at sentSize = 0, sentSize becomes (size_t)-1, the loop ends and
\* sendRequest returns with nothing sent.  Failures of the transport are
\* followed on the scripted runs only.
SendOutcomes == IF mode = "free" THEN {"sent"} ELSE {"sent", "failed"}

sendRequest(q) ==
    \E so \in SendOutcomes : c2s' = IF so = "sent" THEN Append(c2s, q) ELSE c2s

\* the request q is sent and its reply awaited
Remote(c, q) ==
    /\ cli' = [cli EXCEPT !.pc = "wait", !.cur = c, !.sub = 1, !.tot = 0, !.rem = 0]
    /\ sendRequest(q)
    /\ UNCHANGED <<orig, wr, og, rt, rtree>>

\* mylib.c open
CallOpen(path, flags) ==
    LET c == Call(OP_OPEN, 0, path, flags, 0, 0, 0)
    IN  Begin(c) /\ Remote(c, OpenReq(c))

\* mylib.c read
CallRead(fd, count, r) ==
    LET c == Call(OP_READ, fd, "", 0, count, 0, 0)
    IN  /\ Begin(c)
        /\ IF IsLocal(fd) THEN Local(c, r)
           ELSE /\ r = 0
                /\ UNCHANGED <<orig, wr, og, rtree>>
                /\ IF count = 0
                   THEN /\ cli' = [cli EXCEPT !.pc = "returned", !.cur = c, !.sub = 0,
                                              !.tot = 0, !.rem = 0, !.ret = 0,
                                              !.buf = <<>>]
                        /\ rt' = RtStep(c, FALSE)
                        /\ UNCHANGED c2s
                   ELSE /\ cli' = [cli EXCEPT !.pc = "wait", !.cur = c, !.sub = 1,
                                              !.tot = 0, !.rem = count,
                                              !.buf = Bytes("buf", 0, count)]
                        /\ sendRequest(ReadReq(c, ReadChunk(count)))
                        /\ UNCHANGED rt

\* mylib.c write; the caller's buffer holds the bytes ("s", 0 .. count-1)
CallWrite(fd, count, r) ==
    LET c == Call(OP_WRITE, fd, "", 0, count, 0, 0)
        sfd == WireFd(fd)
        open == IsOpen(S, sfd)
        w == [valid |-> open /\ S.fds[sfd].acc # Flag("O_RDONLY"),
              rdwr |-> open /\ S.fds[sfd].ino = 1 /\ S.fds[sfd].acc = Flag("O_RDWR"),
              full |-> TRUE,
              off0 |-> IF open THEN S.fds[sfd].off ELSE 0,
              len0 |-> DataLen(S.fc)]
    IN  /\ Begin(c)
        /\ IF IsLocal(fd) THEN Local(c, r)
           ELSE /\ r = 0
                /\ wr' = w
                /\ UNCHANGED <<orig, og, rtree>>
                /\ IF count = 0
                   THEN /\ cli' = [cli EXCEPT !.pc = "returned", !.cur = c, !.sub = 0,
                                              !.tot = 0, !.rem = 0, !.ret = -1]
                        /\ rt' = RtStep(c, w.rdwr)
                        /\ UNCHANGED c2s
                   ELSE /\ cli' = [cli EXCEPT !.pc = "wait", !.cur = c, !.sub = 1,
                                              !.tot = 0, !.rem = count]
                        /\ sendRequest(WriteReq(c, 0, WriteChunk(count)))
                        /\ UNCHANGED rt

\* mylib.c close
CallClose(fd, r) ==
    LET c == Call(OP_CLOSE, fd, "", 0, 0, 0, 0)
    IN  /\ Begin(c)
        /\ IF IsLocal(fd) THEN Local(c, r) ELSE r = 0 /\ Remote(c, CloseReq(c))

\* mylib.c lseek
CallLseek(fd, offset, whence, r) ==
    LET c == Call(OP_LSEEK, fd, "", 0, 0, offset, whence)
    IN  /\ Begin(c)
        /\ IF IsLocal(fd) THEN Local(c, r) ELSE r = 0 /\ Remote(c, LseekReq(c))

\* mylib.c stat
CallStat(path) ==
    LET c == Call(OP_STAT, 0, path, 0, 0, 0, 0)
    IN  Begin(c) /\ Remote(c, StatReq(c, cli.statbuf))

\* mylib.c unlink
CallUnlink(path) ==
    LET c == Call(OP_UNLINK, 0, path, 0, 0, 0, 0)
    IN  Begin(c) /\ Remote(c, UnlinkReq(c))

\* mylib.c getdirentries
CallGetdirentries(fd, nbyte, r) ==
    LET c == Call(OP_GETDIRENTRIES, fd, "", 0, nbyte, 0, 0)
    IN  /\ Begin(c)
        /\ IF IsLocal(fd) THEN Local(c, r)
           ELSE /\ r = 0
                /\ cli' = [cli EXCEPT !.pc = "wait", !.cur = c, !.sub = 1, !.tot = 0,
                                      !.rem = 0, !.buf = Bytes("buf", 0, nbyte)]
                /\ sendRequest(GetdirentriesReq(c))
                /\ UNCHANGED <<orig, wr, og, rt, rtree>>

\* mylib.c getdirtree
CallGetdirtree(path) ==
    LET c == Call(OP_GETDIRTREE, 0, path, 0, 0, 0, 0)
    IN  Begin(c) /\ Remote(c, GetdirtreeReq(c))

\* ------------------------------------------------------------ the server
\* One turn of the handler's loop (server.c:516-559): recv takes the request,
\* the switch dispatches it, the handler and the loop send the reply frames.
\* nd: what the kernel does beyond the regular course: "short" and "fail",
\* a write that is not completed; "junk", the send of (size_t)-1 bytes emits
\* bytes (a failed getdirentries); "merged", recv(sessfd, buf, MAX_MSG_LEN)
\* returns the two oldest requests at once, and the handler decodes the
\* first and never looks at the second; "sendfail", the first send made for
\* the request returns -1 (server.c:385, 449, 557); "split", recv returns
\* the front part of a write request only; "unterm", the byte behind the
\* pathname the handler copied is not zero.  Failures of the transport, split
\* requests and unterminated pathnames are followed on the scripted runs only.
Turns == {"plain", "short", "fail", "junk", "merged", "sendfail", "split", "unterm"}

\* What handle_write decodes when recv returned the request q up to the
\* first half of its payload: fd and count are q's own, and the count bytes
\* it takes from buf + 12 are that half followed by what buf held before.
SplitHead(q) ==
    [q EXCEPT !.data = Take(q.data, q.cnt \div 2)
                        \o Bytes("stale", 0, q.cnt - q.cnt \div 2),
              !.len = 12 + q.cnt \div 2]

\* What the next recv returns then: the second half of the payload, whose
\* first four bytes the switch takes for an opcode.  They are bytes of the
\* caller's buffer: an opcode outside 0..8, or one of a handler, here close
\* with the four bytes after it naming an open descriptor.
SplitRests(q) ==
    { Req(OP_GETDIRTREE + 1, 0, 0, "", 0, 0, 0, <<>>, q.cnt - q.cnt \div 2, 0),
      Req(OP_CLOSE, q.fd, 0, "", 0, 0, 0, <<>>, q.cnt - q.cnt \div 2, 0) }

ServerStep(nd) ==
    /\ S.up
    /\ c2s # <<>>
    /\ LET q == IF nd = "split" THEN SplitHead(Head(c2s)) ELSE Head(c2s)
           res == Dispatch(q, S, nd)
       IN  /\ nd \in {"short", "fail"}
                => /\ q.op = OP_WRITE
                   /\ nshort < MaxShort
                   /\ KWrite(S, q.fd, q.data, "plain").r # -1
           /\ nd = "junk"
                => /\ q.op = OP_GETDIRENTRIES
                   /\ KGetdirentries(S, q.fd, q.cnt).r = -1
           /\ nd = "merged"
                => /\ Len(c2s) >= 2
                   /\ c2s[1].len + c2s[2].len <= MAX_MSG_LEN
           /\ nd = "sendfail" => mode # "free" /\ nshort < MaxShort
           /\ nd = "unterm" => mode # "free" /\ q.op \in {OP_OPEN, OP_STAT, OP_UNLINK}
           /\ nd = "split" => /\ mode # "free" /\ nshort < MaxShort
                              /\ q.op = OP_WRITE /\ q.cnt >= 8
           /\ S' = res.s
           /\ s2c' = IF nd = "sendfail" THEN s2c ELSE s2c \o res.out
           /\ IF nd = "split"
              THEN \E rest \in SplitRests(q) : c2s' = <<rest>> \o Tail(c2s)
              ELSE c2s' = IF nd = "merged" THEN Tail(Tail(c2s)) ELSE Tail(c2s)
           /\ srv' = [ret |-> res.kr, err |-> res.s.e, retLen |-> RetLen(q, res),
                       path |-> Pathname(q, nd # "unterm")]
           /\ nshort' = IF nd \in {"short", "fail", "sendfail", "split"} THEN nshort + 1
                        ELSE nshort
           /\ wr' = IF q.op = OP_WRITE THEN [wr EXCEPT !.full = @ /\ res.kr = q.cnt]
                    ELSE wr
    /\ UNCHANGED <<cliVars, dtVars, sessVars>>

\* server.c:516, 562-571: recv on the session socket returns a negative
\* value; the loop is left, err(1, 0) ends the process and the connection is
\* closed with it.
ServerRecvFails ==
    /\ mode # "free"
    /\ S.up
    /\ S' = [S EXCEPT !.up = FALSE]
    /\ UNCHANGED <<cliVars, c2s, s2c, nshort, srv, wr, dtVars, sessVars>>

\* ------------------------------------------------- the shim's receives
\* receiveResponse(buf, n) (mylib.c:81-93) returns once n bytes arrived.  When
\* the next n bytes are one untouched frame the decoded fields are that
\* frame's; otherwise the bytes belong to other frames and every decoded
\* integer is some value of GarbageInts (GarbageErrnos for the errno field),
\* the payload unknown bytes.
RecvOutcomes(n) ==
    IF s2c # <<>> /\ s2c[1].whole /\ s2c[1].len = n
    THEN {[a |-> s2c[1].a, b |-> s2c[1].b, data |-> s2c[1].data, tb |-> s2c[1].tb,
           g |-> FALSE]}
    ELSE IF ngarb < MaxGarbage
    THEN {[a |-> x, b |-> y, data |-> Bytes("junk", 0, n - 8), tb |-> <<>>, g |-> TRUE] :
            x \in GarbageInts, y \in GarbageErrnos}
    ELSE {}

\* the shim receives the n bytes of outcome o
Receive(n, o) ==
    /\ StreamLen(s2c) >= n
    /\ s2c' = Consume(s2c, n)
    /\ ngarb' = IF o.g THEN ngarb + 1 ELSE ngarb
    /\ UNCHANGED <<ncalls, mode, script, srvVars, dtVars, sessVars, orig>>

\* the call in progress returns r
Return(c) == rt' = RtStep(c, wr.rdwr)

\* mylib.c:136-144
RecvOpen ==
    /\ cli.pc = "wait" /\ cli.cur.op = OP_OPEN
    /\ \E o \in RecvOutcomes(8) :
         /\ Receive(8, o)
         /\ cli' = [cli EXCEPT !.pc = "returned", !.errno = o.b, !.ret = OpenRet(o.a)]
         /\ og' = [a |-> o.a, ret |-> OpenRet(o.a), closed |-> og.closed \ {OpenRet(o.a)}]
         /\ Return(cli.cur)
         /\ UNCHANGED <<c2s, wr, rtree>>

\* mylib.c:344-351 (close), 433-440 (stat), 473-480 (unlink)
RecvStatus ==
    /\ cli.pc = "wait" /\ cli.cur.op \in {OP_CLOSE, OP_STAT, OP_UNLINK}
    /\ \E o \in RecvOutcomes(8) :
         /\ Receive(8, o)
         /\ cli' = [cli EXCEPT !.pc = "returned", !.errno = o.b, !.ret = o.a]
         /\ og' = IF cli.cur.op = OP_CLOSE /\ o.a = 0
                  THEN [og EXCEPT !.closed = @ \cup {cli.cur.fd}]
                  ELSE og
         /\ Return(cli.cur)
         /\ UNCHANGED <<c2s, wr, rtree>>

\* mylib.c:392-398
RecvLseek ==
    /\ cli.pc = "wait" /\ cli.cur.op = OP_LSEEK
    /\ \E o \in RecvOutcomes(12) :
         /\ Receive(12, o)
         /\ cli' = [cli EXCEPT !.pc = "returned", !.errno = o.b, !.ret = o.a]
         /\ Return(cli.cur)
         /\ UNCHANGED <<c2s, wr, og, rtree>>

\* mylib.c:184-192 and the loop body 213-222
RecvRead ==
    /\ cli.pc = "wait" /\ cli.cur.op = OP_READ
    /\ LET chunk == ReadChunk(cli.rem)
       IN  \E o \in RecvOutcomes(8 + chunk) :
             LET bytes_read == HelperRet(o.a, o.b)
                 buf == Memcpy(cli.buf, cli.tot, Take(o.data, chunk))
                 tot == cli.tot + bytes_read
                 rem == cli.rem - bytes_read
             IN  /\ Receive(8 + chunk, o)
                 /\ UNCHANGED <<wr, og, rtree>>
                 /\ IF bytes_read = -1
                    THEN /\ cli' = [cli EXCEPT !.pc = "returned", !.errno = o.b, !.buf = buf,
                                               !.ret = -1]
                         /\ Return(cli.cur)
                         /\ UNCHANGED c2s
                    ELSE IF bytes_read = 0 \/ rem = 0
                    THEN /\ cli' = [cli EXCEPT !.pc = "returned", !.errno = o.b, !.buf = buf,
                                               !.tot = tot, !.rem = rem, !.ret = tot]
                         /\ Return(cli.cur)
                         /\ UNCHANGED c2s
                    ELSE /\ cli' = [cli EXCEPT !.errno = o.b, !.buf = buf, !.tot = tot,
                                               !.rem = rem, !.sub = @ + 1]
                         /\ sendRequest(ReadReq(cli.cur, ReadChunk(rem)))
                         /\ UNCHANGED rt

\* mylib.c:265-272 and the loop body 297-306
RecvWrite ==
    /\ cli.pc = "wait" /\ cli.cur.op = OP_WRITE
    /\ \E o \in RecvOutcomes(8) :
         LET bytes_written == HelperRet(o.a, o.b)
             tot == cli.tot + bytes_written
             rem == cli.rem - bytes_written
         IN  /\ Receive(8, o)
             /\ UNCHANGED <<wr, og, rtree>>
             /\ IF bytes_written = -1
                THEN /\ cli' = [cli EXCEPT !.pc = "returned", !.errno = o.b, !.ret = -1]
                     /\ Return(cli.cur)
                     /\ UNCHANGED c2s
                ELSE IF rem = 0
                THEN /\ cli' = [cli EXCEPT !.pc = "returned", !.errno = o.b, !.tot = tot,
                                           !.rem = rem,
                                           !.ret = IF tot = 0 THEN -1 ELSE tot]
                     /\ Return(cli.cur)
                     /\ UNCHANGED c2s
                ELSE /\ cli' = [cli EXCEPT !.errno = o.b, !.tot = tot, !.rem = rem,
                                           !.sub = @ + 1]
                     /\ sendRequest(WriteReq(cli.cur, tot, WriteChunk(rem)))
                     /\ UNCHANGED rt

\* *basep after a remote getdirentries that received bytes_read: with the
\* position advanced as the native call does
BasepAdvanced(basep, bytes_read) == basep + bytes_read

\* mylib.c:513 reads *basep into the request; nothing in 491-539 stores to it
BasepAfter(basep, bytes_read) == basep

\* mylib.c:535, buf[bytes_read] = '\0': one byte stored at offset at of buf,
\* which lies behind the nbyte bytes of buf when at = nbyte
StoreNul(buf, at) == Memcpy(buf, at, Bytes("nul", 0, 1))

\* mylib.c:525-535, the header frame of getdirentries
RecvDirentHdr ==
    /\ cli.pc = "wait" /\ cli.cur.op = OP_GETDIRENTRIES
    /\ \E o \in RecvOutcomes(8) :
         /\ Receive(8, o)
         /\ UNCHANGED <<c2s, wr, og, rtree>>
         /\ IF o.b # 0 \/ o.a = 0
            THEN \* errno set: return bytes_read; or no payload byte to receive
                 /\ cli' = [cli EXCEPT !.pc = "returned", !.errno = o.b, !.ret = o.a,
                                       !.basep = BasepAfter(@, o.a),
                                       !.buf = IF o.b # 0 THEN @ ELSE StoreNul(@, 0)]
                 /\ Return(cli.cur)
            ELSE \* receiveResponse(buf, bytes_read): (size_t)-1 bytes never arrive
                 /\ cli' = [cli EXCEPT !.pc = IF o.a < 0 THEN "hang" ELSE "data",
                                       !.errno = o.b, !.hdr = o.a]
                 /\ UNCHANGED rt

\* mylib.c:534-538, the payload frame of getdirentries
RecvDirentData ==
    /\ cli.pc = "data" /\ cli.cur.op = OP_GETDIRENTRIES
    /\ \E o \in RecvOutcomes(cli.hdr) :
         /\ Receive(cli.hdr, o)
         /\ cli' = [cli EXCEPT !.pc = "returned", !.ret = cli.hdr,
                               !.basep = BasepAfter(@, cli.hdr),
                               !.buf = StoreNul(Memcpy(cli.buf, 0,
                                   IF o.g THEN Bytes("junk", 0, cli.hdr) ELSE o.data),
                                   cli.hdr)]
         /\ Return(cli.cur)
         /\ UNCHANGED <<c2s, wr, og, rtree>>

\* mylib.c:592-607 when the announced length needs no further receive
RecvTreeHdr ==
    /\ cli.pc = "wait" /\ cli.cur.op = OP_GETDIRTREE
    /\ \E o \in RecvOutcomes(4) :
         /\ Receive(4, o)
         /\ UNCHANGED <<c2s, wr, og>>
         /\ IF o.a = 0
            THEN \* deserialize_dirtree reads the count behind the one-byte resBuf
                 /\ \E t \in UBTrees : rtree' = t
                 /\ cli' = [cli EXCEPT !.pc = "returned", !.ret = 0]
                 /\ Return(cli.cur)
            ELSE /\ cli' = [cli EXCEPT !.pc = IF o.a < 0 THEN "hang" ELSE "data",
                                       !.hdr = o.a]
                 /\ UNCHANGED <<rt, rtree>>

\* mylib.c:598-607, the payload frame of getdirtree
RecvTreeData ==
    /\ cli.pc = "data" /\ cli.cur.op = OP_GETDIRTREE
    /\ \E o \in RecvOutcomes(cli.hdr) :
         /\ Receive(cli.hdr, o)
         /\ UNCHANGED <<c2s, wr, og>>
         /\ cli' = [cli EXCEPT !.pc = "returned", !.ret = 0]
         /\ Return(cli.cur)
         /\ IF o.g THEN \E t \in UBTrees : rtree' = t
            ELSE rtree' = <<deserialize_dirtree(o.tb \o <<0>>, 0).t>>

\* The host process takes the returned value and runs on; the records of the
\* finished call (cur, ret, the buffers handed to it, what the handler and the
\* local implementation did for it) are dropped.
HostResumes ==
    /\ cli.pc = "returned"
    /\ cli' = [cli EXCEPT !.pc = "idle", !.cur = NoCall, !.tot = 0, !.rem = 0,
                          !.sub = 0, !.ret = 0, !.buf = <<>>, !.hdr = 0]
    /\ rtree' = <<>>
    /\ orig' = NoOrig
    /\ wr' = NoWrite
    /\ srv' = NoSrv
    /\ UNCHANGED <<ncalls, ngarb, c2s, s2c, S, nshort, og, rt, mode, script, dtVars, sessVars>>

\* receiveResponse (mylib.c:81-93): recv returns a negative value and
\* err(1, 0) ends the process; nothing runs in it afterwards.
RecvFails ==
    /\ mode # "free"
    /\ cli.pc \in {"wait", "data"}
    /\ cli' = [cli EXCEPT !.pc = "dead"]
    /\ UNCHANGED <<ncalls, ngarb, c2s, s2c, S, nshort, srv, orig, wr, og, rt, rtree,
                   mode, script, dtVars, sessVars>>

\* receiveResponse (mylib.c:83-91) after the handler has gone and every byte
\* it sent was received: recv returns 0, receivedSize += 0, and the loop
\* while (receivedSize < totalSize) calls recv again, which returns 0 again.
RecvZero ==
    /\ cli.pc \in {"wait", "data"}
    /\ ~S.up
    /\ s2c = <<>>
    /\ cli' = [cli EXCEPT !.pc = "hang"]
    /\ UNCHANGED <<ncalls, ngarb, c2s, s2c, S, nshort, srv, orig, wr, og, rt, rtree,
                   mode, script, dtVars, sessVars>>

Next ==
    \/ \E p \in Paths, f \in OpenFlags : CallOpen(p, f)
    \/ \E a \in FdArgs : \E n \in CountsFor(a[1]) : CallRead(a[1], n, a[2])
    \/ \E a \in FdArgs : \E n \in CountsFor(a[1]) : CallWrite(a[1], n, a[2])
    \/ \E a \in FdArgs : CallClose(a[1], a[2])
    \/ \E a \in FdArgs : \E k \in SeeksFor(a[1]) : CallLseek(a[1], k[1], k[2], a[2])
    \/ \E p \in Paths : CallStat(p)
    \/ \E p \in Paths : CallUnlink(p)
    \/ \E a \in FdArgs, n \in Nbytes : CallGetdirentries(a[1], n, a[2])
    \/ \E p \in Paths : CallGetdirtree(p)
    \/ \E nd \in Turns : ServerStep(nd)
    \/ RecvOpen
    \/ RecvStatus
    \/ RecvLseek
    \/ RecvRead
    \/ RecvWrite
    \/ RecvDirentHdr
    \/ RecvDirentData
    \/ RecvTreeHdr
    \/ RecvTreeData
    \/ HostResumes

Spec == Init /\ [][Next]_vars


\* ------------------------------------------- the directory-tree codec
\* names a directory entry can carry: non-empty, without a NUL byte
DtNames == { <<97>>, <<1, 255>> }
SeqsUpTo(X, n) == UNION { [1 .. k -> X] : k \in 0 .. n }
DtLeaves == { [name |-> nm, subdirs |-> <<>>] : nm \in DtNames }
DtInner == { [name |-> nm, subdirs |-> ks] :
               nm \in DtNames, ks \in SeqsUpTo(DtLeaves, DtMaxKids) }
\* the trees getdirtree can hand to serialize_dirtree, three levels deep
DtTrees == { [name |-> nm, subdirs |-> ks] :
               nm \in DtNames, ks \in SeqsUpTo(DtInner, DtMaxKids) }

InitDirtree ==
    /\ InitShim
    /\ InitServer
    /\ mode = "dirtree"
    /\ script = <<>>
    /\ dtPhase = "tree"
    /\ dtTree \in DtTrees
    /\ dtBuf = <<>>
    /\ dtOut = [t |-> EmptyNode, off |-> 0, ok |-> FALSE]

\* server.c:440-441: ret_data_length = 0; serialize_dirtree(root, retBuf, &ret_data_length)
DtSerialize ==
    /\ dtPhase = "tree"
    /\ dtBuf' = serialize_dirtree(<<dtTree>>)
    /\ dtPhase' = "sent"
    /\ UNCHANGED <<dtTree, dtOut, cliVars, c2s, s2c, srvVars, wr, sessVars>>

\* mylib.c:598-604: resBuf holds the bytes and a closing NUL; offset = 0;
\* deserialize_dirtree(root, resBuf, &offset)
DtDeserialize ==
    /\ dtPhase = "sent"
    /\ dtOut' = deserialize_dirtree(dtBuf \o <<0>>, 0)
    /\ dtPhase' = "done"
    /\ UNCHANGED <<dtTree, dtBuf, cliVars, c2s, s2c, srvVars, wr, sessVars>>

NextDirtree ==
    \/ DtSerialize
    \/ DtDeserialize

SpecDirtree == InitDirtree /\ [][NextDirtree]_vars

\* ------------------------------------------- the scripted round trip
\* lengths of the buffer written and read back
RtLens == {0, 1, 5, 4084, 4085, 10000, 10 * MAX_MSG_LEN}
\* calls made on the session before the file is opened
RtPreludes == { <<>>, << Call(OP_STAT, 0, "x", 0, 0, 0, 0) >> }
\* open("f", O_RDWR); write(fd, s, n); lseek(fd, 0, SEEK_SET); read(fd, buf, n)
RoundTrip(n) ==
    << Call(OP_OPEN, 0, "f", Flag("O_RDWR"), 0, 0, 0),
       Call(OP_WRITE, FD_OFFSET + 3, "", 0, n, 0, 0),
       Call(OP_LSEEK, FD_OFFSET + 3, "", 0, 0, 0, Whence("SEEK_SET")),
       Call(OP_READ, FD_OFFSET + 3, "", 0, n, 0, 0) >>
RtScripts ==
    { pre \o RoundTrip(n) : pre \in RtPreludes, n \in RtLens }
        \cup { << Call(OP_GETDIRTREE, 0, "d", 0, 0, 0, 0) >> }

InitRT ==
    /\ InitShim
    /\ InitServer
    /\ InitDtIdle
    /\ mode = "script"
    /\ script \in RtScripts

\* the host makes the next call of its script
RtStat == script # <<>> /\ Head(script).op = OP_STAT /\ CallStat(Head(script).path)
RtOpen ==
    script # <<>> /\ Head(script).op = OP_OPEN
    /\ CallOpen(Head(script).path, Head(script).flags)
RtWrite ==
    script # <<>> /\ Head(script).op = OP_WRITE
    /\ CallWrite(Head(script).fd, Head(script).cnt, 0)
RtLseek ==
    script # <<>> /\ Head(script).op = OP_LSEEK
    /\ CallLseek(Head(script).fd, Head(script).off, Head(script).wh, 0)
RtRead ==
    script # <<>> /\ Head(script).op = OP_READ
    /\ CallRead(Head(script).fd, Head(script).cnt, 0)
RtGetdirtree ==
    script # <<>> /\ Head(script).op = OP_GETDIRTREE
    /\ CallGetdirtree(Head(script).path)

NextRT ==
    \/ RtStat
    \/ RtGetdirtree
    \/ RecvTreeHdr
    \/ RecvTreeData
    \/ RtOpen
    \/ RtWrite
    \/ RtLseek
    \/ RtRead
    \/ \E nd \in Turns : ServerStep(nd)
    \/ RecvStatus
    \/ RecvOpen
    \/ RecvWrite
    \/ RecvLseek
    \/ RecvRead
    \/ HostResumes
    \/ RecvFails
    \/ ServerRecvFails
    \/ RecvZero

SpecRT == InitRT /\ [][NextRT]_vars

\* ------------------------------------------ the accept loop and its forks
\* server.c:499-572.  Every process of the server runs the same code of main.

\* if (pid != 0): the branch the parent takes; also taken when fork failed
IsParentZero(pid) == pid = 0
IsParent(pid) == pid # 0

\* fork gives the child a descriptor table of its own
TableShared(p) == 0
TableOf(p) == p

\* the state a handler of process p works on
Sof(p) ==
    [fds |-> tables[TableOf(p)].fds, e |-> tables[TableOf(p)].e,
     fc |-> fsys.fc, nm |-> fsys.nm, up |-> TRUE, trees |-> 0]

\* requests a client sends on its connection
SessCalls ==
    { Call(OP_OPEN, 0, "f", Flag("O_RDWR"), 0, 0, 0),
      Call(OP_READ, FD_OFFSET + 3, "", 0, 2, 0, 0),
      Call(OP_WRITE, FD_OFFSET + 3, "", 0, 1, 0, 0),
      Call(OP_LSEEK, FD_OFFSET + 3, "", 0, 0, 0, Whence("SEEK_SET")),
      Call(OP_CLOSE, FD_OFFSET + 3, "", 0, 0, 0, 0),
      \* an opcode no entry point of the shim sends
      Call(OP_GETDIRTREE + 1, 0, "", 0, 0, 0, 0) }
SessReq(c) ==
    CASE c.op = OP_OPEN -> OpenReq(c)
      [] c.op = OP_READ -> ReadReq(c, c.cnt)
      [] c.op = OP_WRITE -> WriteReq(c, 0, c.cnt)
      [] c.op = OP_LSEEK -> LseekReq(c)
      [] c.op = OP_CLOSE -> CloseReq(c)
      [] OTHER -> Req(c.op, 0, 0, "", 0, 0, 0, <<>>, 4, 0)

InitSessions ==
    /\ InitShim
    /\ S = [fds |-> [fd \in SrvFds |-> NoFd], fc |-> Bytes("old", 0, OldLen),
            nm |-> {"f", "d"}, e |-> 0, up |-> TRUE, trees |-> 0]
    /\ nshort = 0
    /\ srv = NoSrv
    /\ InitDtIdle
    /\ mode = "sessions"
    /\ script = <<>>
    \* server.c:481-496: socket, bind, listen done; process 0 enters the loop
    /\ procs = [p \in Procs |->
                  IF p = 0 THEN [pc |-> "accept", pid |-> -1, sessfd |-> 0, sockfd |-> TRUE]
                  ELSE NoProc]
    /\ tables = [p \in Procs |-> NoTable]
    /\ fsys = InitFsys
    /\ backlog = [q |-> {}, seen |-> {}]
    /\ turn = NoTurn

SessFrame == UNCHANGED <<cliVars, c2s, s2c, srvVars, wr, dtVars>>

\* a client connects; the connection waits in the listen queue
Connect(c) ==
    /\ c \notin backlog.seen
    /\ backlog' = [q |-> backlog.q \cup {c}, seen |-> backlog.seen \cup {c}]
    /\ UNCHANGED <<procs, tables, fsys, turn>>
    /\ SessFrame

\* server.c:502: sessfd = accept(sockfd, ...)
Accept(p, c) ==
    /\ procs[p].pc = "accept"
    /\ procs[p].sockfd
    /\ c \in backlog.q
    /\ backlog' = [backlog EXCEPT !.q = @ \ {c}]
    /\ procs' = [procs EXCEPT ![p].sessfd = c, ![p].pc = "fork"]
    /\ UNCHANGED <<tables, fsys, turn>>
    /\ SessFrame

\* server.c:508: pid = fork().  ok: a process k is created, a copy of p in
\* which fork returns 0; otherwise fork returns -1 and there is no child.
Fork(p, ok) ==
    /\ procs[p].pc = "fork"
    /\ IF ok
       THEN \E k \in Procs :
              /\ procs[k].pc = "unborn"
              /\ \A j \in Procs : procs[j].pc = "unborn" => k <= j
              /\ procs' = [procs EXCEPT ![p].pid = k, ![p].pc = "forked",
                                        ![k] = [procs[p] EXCEPT !.pid = 0, !.pc = "forked"]]
              /\ tables' = [tables EXCEPT ![TableOf(k)] = tables[TableOf(p)]]
       ELSE /\ procs' = [procs EXCEPT ![p].pid = -1, ![p].pc = "forked"]
            /\ UNCHANGED tables
    /\ UNCHANGED <<fsys, backlog, turn>>
    /\ SessFrame

\* server.c:509-513: if (pid != 0) { close(sessfd); continue; } close(sockfd);
Branch(p) ==
    /\ procs[p].pc = "forked"
    /\ procs' = IF IsParent(procs[p].pid)
                THEN [procs EXCEPT ![p].sessfd = 0, ![p].pc = "accept"]
                ELSE [procs EXCEPT ![p].sockfd = FALSE, ![p].pc = "serve"]
    /\ UNCHANGED <<tables, fsys, backlog, turn>>
    /\ SessFrame

\* server.c:516-559: one turn of the recv loop in process p, on the request
\* of call c arriving on its connection
HandlerTurn(p, c) ==
    /\ procs[p].pc = "serve"
    /\ turn.n < MaxTurns
    /\ LET q == SessReq(c)
           res == Dispatch(q, Sof(p), "plain")
       IN  /\ tables' = [tables EXCEPT ![TableOf(p)] = [fds |-> res.s.fds, e |-> res.s.e]]
           /\ fsys' = [fc |-> res.s.fc, nm |-> res.s.nm]
           /\ turn' = [who |-> p, op |-> q.op, fd |-> q.fd, r |-> res.kr,
                       len |-> StreamLen(res.out), n |-> turn.n + 1]
    /\ UNCHANGED <<procs, backlog>>
    /\ SessFrame

\* server.c:516, 562-571: recv returns 0 or less; close(sessfd); break;
\* close(sockfd); return 0.  The process is gone, and its descriptors with it.
SessionEnd(p) ==
    /\ procs[p].pc = "serve"
    /\ procs' = [procs EXCEPT ![p].pc = "exited", ![p].sessfd = 0, ![p].sockfd = FALSE]
    /\ tables' = [tables EXCEPT ![TableOf(p)] = NoTable]
    /\ UNCHANGED <<fsys, backlog, turn>>
    /\ SessFrame

NextSessions ==
    \/ \E c \in Conns : Connect(c)
    \/ \E p \in Procs, c \in Conns : Accept(p, c)
    \/ \E p \in Procs, ok \in BOOLEAN : Fork(p, ok)
    \/ \E p \in Procs : Branch(p)
    \/ \E p \in Procs, c \in SessCalls : HandlerTurn(p, c)
    \/ \E p \in Procs : SessionEnd(p)

SpecSessions == InitSessions /\ [][NextSessions]_vars

\* ================================================================ claims
\* the call that has just returned went to the server at least once
RemoteReturned == cli.pc = "returned" /\ cli.sub >= 1

\* C1: a descriptor call (read, write, close, lseek, getdirentries) whose fd
\* is below FD_OFFSET, negative ones included, calls the local implementation
\* exactly once, returns its result unchanged and neither sends nor receives
\* a byte.
C1_LocalDelegation ==
    [][ (cli.pc = "idle" /\ cli'.pc # "idle" /\ cli'.cur.op \in FdOps
           /\ cli'.cur.fd < FD_OFFSET)
        => /\ c2s' = c2s
           /\ s2c' = s2c
           /\ cli'.pc = "returned"
           /\ orig.n = 0 /\ orig'.n = 1 /\ orig'.op = cli'.cur.op
           /\ cli'.ret = orig'.r ]_vars

\* a negative descriptor was handed to the local implementation, which failed
C1_Witness ==
    /\ cli.pc = "returned" /\ cli.cur.op = OP_LSEEK /\ cli.cur.fd < 0
    /\ orig.n = 1 /\ orig.r = -1 /\ cli.ret = -1 /\ c2s = <<>>

\* C2: every value open returns is -1 or server_fd + FD_OFFSET, with server_fd
\* >= 0 the descriptor the server's open returned for that request; open
\* never returns a value in 0 .. FD_OFFSET - 1.
C2_OpenResult ==
    (cli.pc = "returned" /\ cli.cur.op = OP_OPEN)
    => /\ cli.ret \notin 0 .. (FD_OFFSET - 1)
       /\ \/ cli.ret = -1
          \/ /\ c2s = <<>>
             /\ srv.ret >= 0
             /\ cli.ret = srv.ret + FD_OFFSET

\* C3: the fd field of every read, write, close, lseek and getdirentries
\* request is the caller's descriptor minus FD_OFFSET, so the descriptor open
\* returned for server_fd reaches the server as exactly server_fd, never with
\* the bias on it.
C3_WireDescriptor ==
    \A i \in 1 .. Len(c2s) :
        c2s[i].op \in FdOps
        => /\ c2s[i].fd = c2s[i].cfd - FD_OFFSET
           /\ (og.a >= 0 /\ c2s[i].cfd = og.ret) => c2s[i].fd = og.a

\* a request on the descriptor the last open returned is on its way
C3_Witness ==
    /\ c2s # <<>>
    /\ c2s[1].op \in FdOps
    /\ og.a = 3 /\ og.ret = FD_OFFSET + 3
    /\ c2s[1].cfd = og.ret /\ c2s[1].fd = 3

\* C4: whenever a remote open, read, write, close, lseek, stat, unlink or
\* getdirentries returns with errno non-zero, its return value is -1 (stated
\* for the runs in which every reply was decoded from its own frame).
C4_ErrnoMeansFailure ==
    (RemoteReturned /\ cli.cur.op \in OP_OPEN .. OP_GETDIRENTRIES /\ ngarb = 0
       /\ cli.errno # 0)
    => cli.ret = -1

\* C5: after any earlier remote calls, failed ones included, a remote write of
\* n > 0 bytes on a valid writable descriptor whose sub-frames the server all
\* wrote in full returns n, and the n bytes are in the server's file from the
\* descriptor's offset on.
C5_WriteReturnsCount ==
    (RemoteReturned /\ cli.cur.op = OP_WRITE /\ cli.cur.cnt > 0 /\ ngarb = 0
       /\ wr.valid /\ wr.full)
    => /\ cli.ret = cli.cur.cnt
       /\ Norm(Take(Drop(S.fc, wr.off0), cli.cur.cnt)) = Bytes("s", 0, cli.cur.cnt)
       /\ DataLen(S.fc) = IF wr.off0 + cli.cur.cnt > wr.len0
                          THEN wr.off0 + cli.cur.cnt ELSE wr.len0

\* C6: the reply of every operation 0..8 carries the errno the server read for
\* that request, and the shim has stored it in the caller's errno when the
\* call returns.
C6_ErrnoPropagated ==
    (RemoteReturned /\ ngarb = 0 /\ c2s = <<>>) => cli.errno = srv.err

\* C7: when a remote call returns, and while a request is on its way, no byte
\* of a reply is left unread on the connection.
C7_NoUnreadReply ==
    (RemoteReturned \/ c2s # <<>>) => StreamLen(s2c) = 0

\* C8: on a file opened O_RDWR, for every s of 0 .. 10 * MAX_MSG_LEN bytes,
\* write(fd, s, |s|); lseek(fd, 0, SEEK_SET); read(fd, buf, |s|) returns |s|
\* and leaves buf equal to s.
C8_WriteSeekRead ==
    (cli.pc = "returned" /\ rt.st = 3)
    => /\ cli.ret = rt.n
       /\ cli.buf = Bytes("s", 0, rt.n)

\* C9: deserialize_dirtree applied to the bytes serialize_dirtree wrote for a
\* tree T of non-empty NUL-free names rebuilds T and stops at the offset
\* serialize_dirtree reached.
C9_DirtreeRoundTrip ==
    dtPhase = "done"
    => /\ dtOut.ok
       /\ dtOut.t = dtTree
       /\ dtOut.off = Len(dtBuf)

\* a tree with a two-byte name, two subdirectories and a grandchild made the trip
C9_Witness ==
    /\ dtPhase = "done"
    /\ dtTree.name = <<1, 255>>
    /\ Len(dtTree.subdirs) = 2
    /\ dtTree.subdirs[1].subdirs # <<>>
    /\ dtOut.t = dtTree
    /\ dtOut.off = Len(dtBuf)

\* C10: after a remote stat returned 0 the caller's status buffer holds the
\* status the server's stat produced for the path.
C10_StatBuffer ==
    (RemoteReturned /\ cli.cur.op = OP_STAT /\ ngarb = 0 /\ cli.ret = 0)
    => cli.statbuf = Bytes(cli.cur.path, 0, 144)

\* C11: every read sub-frame asks for at most MAX_MSG_LEN - 8 bytes and every
\* write sub-frame carries at most MAX_MSG_LEN - 12, so no read or write
\* request and no reply to one is longer than MAX_MSG_LEN bytes.
C11_FrameSizes ==
    /\ [](\A i \in 1 .. Len(c2s) :
            /\ c2s[i].op = OP_READ
                 => c2s[i].cnt <= MAX_MSG_LEN - 8 /\ c2s[i].len <= MAX_MSG_LEN
            /\ c2s[i].op = OP_WRITE
                 => /\ c2s[i].cnt <= MAX_MSG_LEN - 12
                    /\ DataLen(c2s[i].data) = c2s[i].cnt
                    /\ c2s[i].len <= MAX_MSG_LEN)
    /\ [][ (c2s # <<>> /\ Head(c2s).op \in {OP_READ, OP_WRITE} /\ c2s' = Tail(c2s))
            => StreamLen(s2c') - StreamLen(s2c) <= MAX_MSG_LEN ]_vars

\* the reply to the second sub-frame of a read fills MAX_MSG_LEN bytes
C11_Witness ==
    /\ cli.pc = "wait" /\ cli.cur.op = OP_READ /\ cli.sub = 2
    /\ Len(s2c) = 1 /\ s2c[1].whole /\ s2c[1].len = MAX_MSG_LEN
\* the number of turns of the loop of mylib.c:295-304 that moves count bytes
\* when each turn moves chunk bytes, the last one the rest
CeilDiv(count, chunk) == (count + chunk - 1) \div chunk

\* C12: a remote write of count bytes all of whose sub-frames the server
\* wrote in full was carried in exactly ceil(count / (MAX_MSG_LEN - 12))
\* sub-frames.
C12_WriteSubFrames ==
    (cli.pc = "returned" /\ cli.cur.op = OP_WRITE /\ wr.valid /\ wr.full)
    => cli.sub = CeilDiv(cli.cur.cnt, MAX_MSG_LEN - 12)
\* the shim is about to receive the reply frame the server sent for the
\* sub-frame in flight of the read or write in progress
SubFrameReply(n) ==
    /\ cli.pc = "wait"
    /\ s2c # <<>> /\ s2c[1].whole /\ s2c[1].len = n
    /\ s2c' = Tail(s2c)

\* C13: a remote read issues sub-frames until one reports 0 bytes or the
\* count is exhausted and then returns the sum of the byte counts its
\* sub-frames reported: the accumulated count at end-of-file, 0 when the
\* first sub-frame reports 0 bytes.
C13_ReadAccumulates ==
    [][ (cli.cur.op = OP_READ /\ SubFrameReply(8 + ReadChunk(cli.rem))
           /\ s2c[1].a >= 0)
        => IF s2c[1].a = 0 \/ s2c[1].a = cli.rem
           THEN /\ cli'.pc = "returned"
                /\ cli'.ret = cli.tot + s2c[1].a
                /\ c2s' = c2s
           ELSE /\ cli'.pc = "wait"
                /\ cli'.tot = cli.tot + s2c[1].a
                /\ c2s' = Append(c2s, ReadReq(cli.cur, ReadChunk(cli.rem - s2c[1].a))) ]_vars
\* C14: at the first sub-frame of a chunked read or write whose reply is
\* error-indicating (errno non-zero, or a byte count of -1) the call returns
\* -1 with the caller's errno equal to that reply's errno and no further
\* sub-frame is sent, whatever earlier sub-frames transferred.
C14_AbortOnError ==
    [][ (/\ cli.cur.op \in {OP_READ, OP_WRITE}
         /\ SubFrameReply(IF cli.cur.op = OP_READ THEN 8 + ReadChunk(cli.rem) ELSE 8)
         /\ (s2c[1].b # 0 \/ s2c[1].a = -1))
        => /\ cli'.pc = "returned"
           /\ cli'.ret = -1
           /\ cli'.errno = s2c[1].b
           /\ c2s' = c2s ]_vars

\* the second sub-frame of a write failed after the first had moved its bytes
C14_Witness ==
    /\ cli.pc = "returned" /\ cli.cur.op = OP_WRITE /\ cli.sub = 2
    /\ cli.tot = MAX_MSG_LEN - 12
    /\ cli.ret = -1 /\ cli.errno = Errno("ENOSPC")
    /\ c2s = <<>> /\ s2c = <<>>
\* C15: a remote write returns the number of bytes its sub-frames reported
\* written, accumulated over the call; it returns -1 when that count is zero,
\* as it is for a write of no bytes.
C15_WriteReturnsAccumulated ==
    [][ /\ (cli.cur.op = OP_WRITE /\ SubFrameReply(8) /\ s2c[1].a >= 0
               /\ cli'.pc = "returned")
            => cli'.ret = IF cli.tot + s2c[1].a = 0 THEN -1 ELSE cli.tot + s2c[1].a
        /\ (cli.pc = "idle" /\ cli'.pc = "returned" /\ cli'.cur.op = OP_WRITE
               /\ cli'.cur.fd >= FD_OFFSET)
            => cli'.cur.cnt = 0 /\ cli'.ret = -1 ]_vars
\* C16: once a remote close(fd) has returned 0, every later read, write,
\* close, lseek or getdirentries on fd returns -1 with errno = EBADF, until an
\* open returns fd again.
C16_ClosedIsBad ==
    [][ (cli.pc # "returned" /\ cli'.pc = "returned" /\ cli'.cur.op \in FdOps
           /\ cli'.cur.fd \in og.closed)
        => cli'.ret = -1 /\ cli'.errno = Errno("EBADF") ]_vars
\* C19: the handler executes the requests of a session in the order they
\* were sent, one at a time: whenever it takes requests off the connection it
\* takes the oldest one only, and its whole reply is on the connection before
\* the next request is read.
C19_RequestOrder ==
    [][ Len(c2s') < Len(c2s)
        => /\ c2s' = Tail(c2s)
           /\ \E nd \in Turns : s2c' = s2c \o Dispatch(Head(c2s), S, nd).out ]_vars
\* C20: a negative value from send or recv on the shim's socket during a
\* remote call ends the calling process.  When a step starts a sub-frame of a
\* remote call without its request going out (send returned a negative value)
\* the process is dead after the step, and a dead process changes nothing of
\* its own state and puts nothing on the connection.
C20_TransportFatal ==
    [][ /\ ( /\ cli.pc = "idle" \/ cli'.sub = cli.sub + 1
             /\ cli'.sub >= 1
             /\ cli'.pc # "returned"
             /\ c2s' = c2s )
            => cli'.pc = "dead"
        /\ cli.pc = "dead" => cli' = cli /\ Len(c2s') <= Len(c2s) ]_vars
C18_SessionIsolation ==
    [][ \A p \in Procs :
          ( /\ procs[p].pc = "serve" /\ procs'[p].pc = "serve"
            /\ tables'[TableOf(p)] # tables[TableOf(p)] )
          => turn'.who = p /\ turn'.n = turn.n + 1 ]_vars

\* both sessions hold descriptor 3 at different offsets, and the last request
\* handled was a read of descriptor 3 by the second session
C18_Witness ==
    /\ procs[1].pc = "serve" /\ procs[2].pc = "serve"
    /\ tables[1].fds[3].ino # 0 /\ tables[2].fds[3].ino # 0
    /\ tables[1].fds[3].off = 0 /\ tables[2].fds[3].off = 2
    /\ turn.who = 2 /\ turn.op = OP_READ /\ turn.fd = 3 /\ turn.r = 2
\* C21: a negative value from send or recv on the session socket ends the
\* session.  A turn of the handler that takes a request and puts no reply
\* byte on the connection (its send returned -1) leaves the handler out of
\* its recv loop, and a handler that left the loop takes no request and sends
\* nothing.
C21_ServerTransportFatal ==
    [][ /\ (c2s # <<>> /\ Len(c2s') < Len(c2s) /\ s2c' = s2c) => ~S'.up
        /\ ~S.up => Len(c2s') >= Len(c2s) /\ StreamLen(s2c') <= StreamLen(s2c) ]_vars
\* C22: every tree a handler obtained from getdirtree is freed when the
\* handler has returned, whatever the send of the length header returned.
C22_TreeFreed == S.trees = 0
\* C23: for a getdirentries request the handler puts the 8-byte header on
\* the connection first, and after it a data frame of exactly `bytes` bytes
\* when the header's errno is 0, nothing when it is not.
C23_DirentFrames ==
    [][ (c2s # <<>> /\ Head(c2s).op = OP_GETDIRENTRIES /\ Len(c2s') < Len(c2s))
        => /\ Len(s2c') > Len(s2c)
           /\ s2c'[Len(s2c) + 1].whole /\ s2c'[Len(s2c) + 1].len = 8
           /\ StreamLen(s2c') - StreamLen(s2c)
                = 8 + (IF s2c'[Len(s2c) + 1].b = 0 THEN s2c'[Len(s2c) + 1].a ELSE 0) ]_vars
\* C24: a request whose opcode is outside 0..8 is answered with no bytes,
\* performs no file operation (descriptor tables, errno and files are as
\* before), and leaves the handler in its recv loop.
C24_UnknownOpcode ==
    [][ (turn'.n = turn.n + 1 /\ turn'.op \notin OP_OPEN .. OP_GETDIRTREE)
        => /\ turn'.len = 0
           /\ tables' = tables /\ fsys' = fsys
           /\ procs' = procs /\ procs'[turn'.who].pc = "serve" ]_vars

\* a handler that opened a file has then handled an unknown opcode
C24_Witness ==
    /\ turn.n = 2 /\ turn.op = OP_GETDIRTREE + 1 /\ turn.len = 0
    /\ procs[turn.who].pc = "serve"
    /\ tables[turn.who].fds[3].ino # 0
\* C25: whenever the handler takes bytes off the connection it takes one
\* whole request, the oldest, and what it does is what the handler of that
\* request's opcode does on that request's bytes; no part of a request stays
\* behind to be read as a request of its own.
C25_WholeRequests ==
    [][ (c2s # <<>> /\ c2s' # c2s /\ Len(c2s') <= Len(c2s))
        => /\ c2s' = Tail(c2s)
           /\ \E nd \in Turns \ {"split"} : S' = Dispatch(Head(c2s), S, nd).s ]_vars
\* C26: no step of a remote getdirentries call changes the value stored at
\* the caller's basep.
C26_BasepUntouched ==
    [][ (cli'.cur.op = OP_GETDIRENTRIES /\ ~IsLocal(cli'.cur.fd))
        => cli'.basep = cli.basep ]_vars

\* a remote getdirentries returned the directory's entries, the server's
\* descriptor stands behind them, and the caller's basep is what it was
C26_Witness ==
    /\ cli.pc = "returned" /\ cli.cur.op = OP_GETDIRENTRIES /\ cli.sub = 1
    /\ cli.ret = DirBytes /\ cli.errno = 0 /\ srv.ret = DirBytes
    /\ S.fds[WireFd(cli.cur.fd)].off = DirBytes
    /\ cli.basep = 0
\* C27: a remote write ends after finitely many sub-frames whatever the
\* replies are: the count still to be written is a natural number, and every
\* reply after which the loop sends a further sub-frame has made it smaller.
C27_WriteTerminates ==
    /\ [](cli.cur.op = OP_WRITE /\ cli.pc = "wait" => cli.rem > 0)
    /\ [][ ( /\ cli.cur.op = OP_WRITE /\ cli.pc = "wait"
             /\ cli'.pc = "wait" /\ cli'.sub = cli.sub + 1 )
            => cli'.rem < cli.rem ]_vars
\* C28: once the handler has closed the connection and no reply byte is
\* left to receive, the step the waiting call takes ends it: the call returns
\* or the process is ended.
C28_EofEndsCall ==
    [][ (~S.up /\ s2c = <<>> /\ cli.pc \in {"wait", "data"} /\ cli' # cli)
        => cli'.pc \in {"returned", "dead"} ]_vars
\* C29: when the server's getdirtree yielded no tree, the shim's getdirtree
\* has returned NULL.
C29_NullOnFailure ==
    ( /\ cli.pc = "returned" /\ cli.cur.op = OP_GETDIRTREE
      /\ ngarb = 0 /\ c2s = <<>> /\ srv.ret = 0 )
    => rtree = <<>>
\* C30: the length a handler returns is at most MAX_MSG_LEN (and not
\* negative), so that retBuf[retLen] and the retLen bytes sent lie inside
\* the buffer of MAX_MSG_LEN + 1 bytes.
C30_ReplyFitsBuffer == srv.retLen >= 0 /\ srv.retLen <= MAX_MSG_LEN
\* C31: a remote read that returned n >= 0 left the caller's buffer unchanged
\* from position n on, and one that returned -1 after k bytes were accumulated
\* left it unchanged from position k on.
C31_ReadTailUntouched ==
    (cli.pc = "returned" /\ cli.cur.op = OP_READ /\ ~IsLocal(cli.cur.fd))
    => LET k == IF cli.ret >= 0 THEN cli.ret ELSE cli.tot
       IN  Norm(Drop(cli.buf, k)) = Bytes("buf", k, cli.cur.cnt - k)
\* C32: a remote getdirentries whose reply announced 0 <= bytes <= nbyte
\* stored into buf[0 .. nbyte-1] only: no byte at an index >= nbyte was written.
C32_DirentStoresInside ==
    (cli.pc = "returned" /\ cli.cur.op = OP_GETDIRENTRIES /\ ~IsLocal(cli.cur.fd)
        /\ cli.ret >= 0 /\ cli.ret <= cli.cur.cnt)
    => DataLen(cli.buf) <= cli.cur.cnt
\* C33: the pathname a handler hands to open, stat or unlink is exactly the
\* path_len bytes of the request it handles.
C33_ExactPathname ==
    [][ (c2s # <<>> /\ Head(c2s).op \in {OP_OPEN, OP_STAT, OP_UNLINK} /\ Len(c2s') < Len(c2s))
        => srv'.path = Head(c2s).path ]_vars

====
